---- MODULE Spec2Model ----
(***************************************************************************)
(* A model of the GitHub issue summarizer's two core services:             *)
(*   - CacheService  (src/services/cache_service.py)                       *)
(*   - AIService     (src/services/ai_service.py)                          *)
(* Text is modelled as sequences of one-character strings, Python's None   *)
(* as the string "None", an Optional[int] as a sequence of length <= 1.    *)
(***************************************************************************)
EXTENDS Integers, Sequences, FiniteSets, TLC

VARIABLES store, now, last, prev, latest,
          kPrefix, kArgs, kKey, kFirst, kCalls,
          sKind, sText, sMax, sMin, sOrder, sFault, sFaulted,
          sResult, sExc, sFirst, sCalls,
          pText, pMax, pMin, pStage, pNorm, pSentences, pScores, pDraft,
          pOrder, pOut,
          ccPc, ccValue, ccRet, ccCalls, ccOwn, ccStored

cacheVars == <<store, now, last, prev, latest>>
keyVars == <<kPrefix, kArgs, kKey, kFirst, kCalls>>
sumVars == <<sKind, sText, sMax, sMin, sOrder, sFault, sFaulted,
             sResult, sExc, sFirst, sCalls>>
pipeVars == <<pText, pMax, pMin, pStage, pNorm, pSentences, pScores, pDraft,
              pOrder, pOut>>
concVars == <<ccPc, ccValue, ccRet, ccCalls, ccOwn, ccStored>>
vars == <<store, now, last, prev, latest, kPrefix, kArgs, kKey, kFirst, kCalls,
          sKind, sText, sMax, sMin, sOrder, sFault, sFaulted,
          sResult, sExc, sFirst, sCalls,
          pText, pMax, pMin, pStage, pNorm, pSentences, pScores, pDraft,
          pOrder, pOut, ccPc, ccValue, ccRet, ccCalls, ccOwn, ccStored>>

(***************************************************************************)
(* Bounds of the cache model.                                              *)
(***************************************************************************)
MaxTicks == 2

(***************************************************************************)
(* Bounds of the key builder model: parameters per call, calls per run.    *)
(***************************************************************************)
MaxParams == 3
MaxKeyCalls == 2

\* the seconds one Tick lets pass, and the timeout health_check / callers give
TickSeconds == 60

None == "None"
PyTrue == "True"
PyFalse == "False"

Keys == {"k1"}
HealthKey == "health_check_test"
HealthValue == "test_value"
StoreKeys == Keys \cup {HealthKey}
\* what a caller stores or a producer returns (None included: any Python value)
Values == {None, "v1", "v2"}
\* Optional[int] timeout arguments: not given, 0, 60
NoTimeout == << >>
Timeouts == {NoTimeout, <<0>>, <<TickSeconds>>}
\* which backend call of a get_or_set raises
FaultPlans == {"none", "get", "set", "both"}

\* self.default_timeout
default_timeout == 1800

(***************************************************************************)
(* Characters and strings.  A str is a sequence of one-character strings;  *)
(* characters are ordered by code point, as Python orders them.            *)
(***************************************************************************)
\* the character ` (which a TLA+ string cannot hold)
Backtick == "backtick"

Printable ==
    <<" ","!","\"","#","$","%","&","'","(",")","*","+",",","-",".","/","0",
      "1","2","3","4","5","6","7","8","9",":",";","<","=",">","?","@","A","B",
      "C","D","E","F","G","H","I","J","K","L","M","N","O","P","Q","R","S","T",
      "U","V","W","X","Y","Z","[","\\","]","^","_",Backtick,"a","b","c","d","e",
      "f","g","h","i","j","k","l","m","n","o","p","q","r","s","t","u","v","w",
      "x","y","z","{","|","}","~">>

PrintableSet == {Printable[i] : i \in 1..Len(Printable)}

OrdTable == [c \in PrintableSet |-> 31 + (CHOOSE i \in 1..Len(Printable) : Printable[i] = c)]

\* ord(c)
Ord(c) == IF c = "\n" THEN 10 ELSE IF c = "\t" THEN 9 ELSE OrdTable[c]

\* c * n
Rep(c, n) == [i \in 1..n |-> c]

\* a < b on str
RECURSIVE StrLess(_, _)
StrLess(a, b) ==
    IF b = << >> THEN FALSE
    ELSE IF a = << >> THEN TRUE
    ELSE IF a[1] # b[1] THEN Ord(a[1]) < Ord(b[1])
    ELSE StrLess(Tail(a), Tail(b))

(***************************************************************************)
(* CacheService.generate_cache_key.  kwargs is a sequence of <<name, value>>*)
(* pairs in the order the caller supplied them (names distinct); a value   *)
(* is an int or a str.                                                     *)
(***************************************************************************)
IntVal(n) == [kind |-> "int", n |-> n, s |-> << >>]
StrVal(s) == [kind |-> "str", n |-> 0, s |-> s]

\* the length above which a key is hashed
KeyLengthLimit == 250

\* sorted(kwargs.items()): ascending by name
RECURSIVE InsertItem(_, _)
InsertItem(x, items) ==
    IF items = << >> THEN <<x>>
    ELSE IF StrLess(x[1], items[1][1]) THEN <<x>> \o items
    ELSE <<items[1]>> \o InsertItem(x, Tail(items))

\* the items left in the order given
unsorted_items(kwargs) == kwargs

RECURSIVE sorted_items(_)
sorted_items(kwargs) ==
    IF kwargs = << >> THEN << >>
    ELSE InsertItem(kwargs[Len(kwargs)], sorted_items(SubSeq(kwargs, 1, Len(kwargs) - 1)))

Digit(d) == Printable[17 + d]

\* str(n) for an int
RECURSIVE Decimal(_)
Decimal(n) ==
    IF n < 0 THEN <<"-">> \o Decimal(0 - n)
    ELSE IF n < 10 THEN <<Digit(n)>>
    ELSE Decimal(n \div 10) \o <<Digit(n % 10)>>

\* json.dumps of a str: quoted, with " and \ escaped (characters lo..hi of s)
RECURSIVE JsonEscape(_, _, _)
JsonEscape(s, lo, hi) ==
    IF lo > hi THEN << >>
    ELSE IF lo = hi
    THEN (IF s[lo] \in {"\"", "\\"} THEN <<"\\", s[lo]>> ELSE <<s[lo]>>)
    ELSE LET mid == (lo + hi) \div 2 IN
         JsonEscape(s, lo, mid) \o JsonEscape(s, mid + 1, hi)

JsonStr(s) == <<"\"">> \o JsonEscape(s, 1, Len(s)) \o <<"\"">>

JsonValue(v) == IF v.kind = "int" THEN Decimal(v.n) ELSE JsonStr(v.s)

\* json.dumps of one (name, value) tuple: ["name", value]
JsonItem(item) == <<"[">> \o JsonStr(item[1]) \o <<",", " ">> \o JsonValue(item[2]) \o <<"]">>

RECURSIVE JsonItems(_)
JsonItems(items) ==
    IF items = << >> THEN << >>
    ELSE IF Len(items) = 1 THEN JsonItem(items[1])
    ELSE JsonItem(items[1]) \o <<",", " ">> \o JsonItems(Tail(items))

\* json.dumps(sorted_items, sort_keys=True)
json_dumps(items) == <<"[">> \o JsonItems(items) \o <<"]">>

\* hashlib.md5(s.encode()).hexdigest(): 32 hexadecimal digits that depend on every
\* character of s and its position (a digest of the same shape stands for MD5)
HexDigits == <<"0","1","2","3","4","5","6","7","8","9","a","b","c","d","e","f">>

\* the sum of w(i) * ord(s[i]) over characters lo..hi, w(i) = i if weighted else 1
RECURSIVE CharSum(_, _, _, _)
CharSum(s, lo, hi, weighted) ==
    IF lo > hi THEN 0
    ELSE IF lo = hi THEN ((IF weighted THEN lo ELSE 1) * Ord(s[lo])) % 65536
    ELSE LET mid == (lo + hi) \div 2 IN
         (CharSum(s, lo, mid, weighted) + CharSum(s, mid + 1, hi, weighted)) % 65536

md5_hexdigest(s) ==
    LET a == CharSum(s, 1, Len(s), FALSE)
        b == CharSum(s, 1, Len(s), TRUE)
    IN  [i \in 1..32 |-> HexDigits[1 + ((a \div i + b * i + i * i + Len(s)) % 16)]]

\* generate_cache_key hashing already at the limit
generate_cache_key_at_limit(prefix, kwargs) ==
    LET key_string == prefix \o <<":">> \o json_dumps(sorted_items(kwargs)) IN
    IF Len(key_string) >= KeyLengthLimit
    THEN prefix \o <<":">> \o md5_hexdigest(key_string)
    ELSE key_string

generate_cache_key(prefix, kwargs) ==
    LET key_string == prefix \o <<":">> \o json_dumps(sorted_items(kwargs)) IN
    IF Len(key_string) > KeyLengthLimit
    THEN prefix \o <<":">> \o md5_hexdigest(key_string)
    ELSE key_string

\* the prefixes and parameters callers pass
KeyPrefixes == {<<"i","s","s","u","e","s">>, Rep("p", 217), Rep("p", 218)}

KeyParams ==
    { <<<<"o","w","n","e","r">>, StrVal(<<"a","c","m","e">>)>>,
      <<<<"r","e","p","o">>, StrVal(<<"w","i","d","g","e","t","s">>)>>,
      <<<<"p","a","g","e">>, IntVal(1)>>,
      <<<<"p","e","r","_","p","a","g","e">>, IntVal(10)>>,
      <<<<"q">>, StrVal(Rep("x", 240))>> }

\* kwargs: up to MaxParams parameters with distinct names, in any order
KeyArgLists ==
    UNION { { a \in [1..n -> KeyParams] :
                \A i, j \in 1..n : i # j => a[i][1] # a[j][1] } : n \in 0..MaxParams }

(***************************************************************************)
(* Text helpers of the summarizer.  Every scan is written with bounded     *)
(* quantifiers over positions, so that its cost does not grow with the     *)
(* nesting depth of the evaluation.                                        *)
(***************************************************************************)
\* the whitespace str.split() and str.strip() act on
IsSpace(c) == c \in {" ", "\n", "\t"}

Indices(s) == [i \in 1..Len(s) |-> i]

Min2(a, b) == IF a < b THEN a ELSE b
Max2(a, b) == IF a > b THEN a ELSE b

\* s[:k]
SliceTo(s, k) ==
    IF k >= 0 THEN SubSeq(s, 1, Min2(k, Len(s))) ELSE SubSeq(s, 1, Max2(0, Len(s) + k))

\* the least position in lo..Len(s) holding a character of cs (Len(s) + 1 if none)
FirstIn(s, lo, cs) ==
    IF \E j \in lo..Len(s) : s[j] \in cs
    THEN CHOOSE j \in lo..Len(s) : s[j] \in cs /\ \A k \in lo..(j - 1) : s[k] \notin cs
    ELSE Len(s) + 1

\* the least position in lo..Len(s) holding a character outside cs
FirstNotIn(s, lo, cs) ==
    IF \E j \in lo..Len(s) : s[j] \notin cs
    THEN CHOOSE j \in lo..Len(s) : s[j] \notin cs /\ \A k \in lo..(j - 1) : s[k] \in cs
    ELSE Len(s) + 1

Spaces == {" ", "\n", "\t"}

\* v bound to a name within Body
With(v, Body(_)) == Body(v)

\* the least element of a set of positions, 0 if there is none
Least(S) == IF S = {} THEN 0 ELSE CHOOSE j \in S : \A k \in S : j <= k

\* the greatest position holding a character outside cs (0 if none)
LastNotIn(s, cs) ==
    IF \E j \in 1..Len(s) : s[j] \notin cs
    THEN CHOOSE j \in 1..Len(s) : s[j] \notin cs /\ \A k \in (j + 1)..Len(s) : s[k] \in cs
    ELSE 0

\* s.strip()
strip(s) == SubSeq(s, FirstNotIn(s, 1, Spaces), LastNotIn(s, Spaces))

\* " ".join(s.split())
split_join(s) ==
    With(strip(s), LAMBDA t :
        LET Keep(i) == t[i] \notin Spaces \/ t[i - 1] \notin Spaces IN
        With(SelectSeq(Indices(t), Keep), LAMBDA idx :
            [k \in 1..Len(idx) |-> IF t[idx[k]] \in Spaces THEN " " ELSE t[idx[k]]]))

\* len(s.split())
word_count(s) ==
    Cardinality({i \in 1..Len(s) : s[i] \notin Spaces /\ (i = 1 \/ s[i - 1] \in Spaces)})

\* s.split(), as the set of its words
words_of(s) ==
    LET starts == {i \in 1..Len(s) : s[i] \notin Spaces /\ (i = 1 \/ s[i - 1] \in Spaces)}
    IN  {SubSeq(s, i, FirstIn(s, i, Spaces) - 1) : i \in starts}

\* c.lower(), c.upper(), c.isupper() of an ASCII character
IsUpperChar(c) == c \in PrintableSet /\ Ord(c) >= 65 /\ Ord(c) <= 90
IsLowerChar(c) == c \in PrintableSet /\ Ord(c) >= 97 /\ Ord(c) <= 122
LowerChar(c) == IF IsUpperChar(c) THEN Printable[Ord(c) - 31 + 32] ELSE c
UpperChar(c) == IF IsLowerChar(c) THEN Printable[Ord(c) - 31 - 32] ELSE c

\* s.lower()
lower(s) == [i \in 1..Len(s) |-> LowerChar(s[i])]

\* needle in hay
Contains(hay, needle) ==
    \E i \in 1..(Len(hay) - Len(needle) + 1) :
        \A j \in 1..Len(needle) : hay[i + j - 1] = needle[j]

\* whether s holds t at position i
HasAt(s, i, t) ==
    /\ i + Len(t) - 1 <= Len(s)
    /\ \A j \in 1..Len(t) : s[i + j - 1] = t[j]

(***************************************************************************)
(* AIService: vocabularies and fixed messages.                             *)
(***************************************************************************)
default_max_length == 150
default_min_length == 30

tech_keywords ==
    { <<"b","u","g">>,
      <<"e","r","r","o","r">>,
      <<"f","i","x">>,
      <<"i","s","s","u","e">>,
      <<"p","r","o","b","l","e","m">>,
      <<"f","e","a","t","u","r","e">>,
      <<"e","n","h","a","n","c","e","m","e","n","t">>,
      <<"r","e","q","u","e","s","t">>,
      <<"i","m","p","l","e","m","e","n","t">>,
      <<"a","d","d">>,
      <<"r","e","m","o","v","e">>,
      <<"u","p","d","a","t","e">>,
      <<"u","p","g","r","a","d","e">>,
      <<"i","m","p","r","o","v","e">>,
      <<"p","e","r","f","o","r","m","a","n","c","e">>,
      <<"s","e","c","u","r","i","t","y">>,
      <<"d","o","c","u","m","e","n","t","a","t","i","o","n">>,
      <<"t","e","s","t">>,
      <<"t","e","s","t","i","n","g">>,
      <<"r","e","f","a","c","t","o","r">>,
      <<"a","p","i">>,
      <<"u","i">>,
      <<"u","x">>,
      <<"d","a","t","a","b","a","s","e">>,
      <<"s","e","r","v","e","r">>,
      <<"c","l","i","e","n","t">>,
      <<"f","r","o","n","t","e","n","d">>,
      <<"b","a","c","k","e","n","d">>,
      <<"m","o","b","i","l","e">>,
      <<"w","e","b">>,
      <<"d","e","s","k","t","o","p">>,
      <<"c","r","a","s","h">>,
      <<"f","r","e","e","z","e">>,
      <<"s","l","o","w">>,
      <<"f","a","s","t">>,
      <<"o","p","t","i","m","i","z","e">> }

query_words ==
    { <<"h","o","w">>,
      <<"w","h","a","t">>,
      <<"w","h","y">>,
      <<"w","h","e","n">>,
      <<"w","h","e","r","e">>,
      <<"s","h","o","u","l","d">>,
      <<"n","e","e","d">>,
      <<"w","a","n","t">> }

defect_words ==
    { <<"e","r","r","o","r">>,
      <<"b","u","g">>,
      <<"f","a","i","l">>,
      <<"i","s","s","u","e">>,
      <<"p","r","o","b","l","e","m">>,
      <<"b","r","o","k","e","n">> }

NoContentMessage ==
    <<"N","o"," ","c","o","n","t","e","n","t"," ","a","v","a","i","l","a","b",
      "l","e"," ","t","o"," ","s","u","m","m","a","r","i","z","e",".">>

NoStructureMessage ==
    <<"U","n","a","b","l","e"," ","t","o"," ","a","n","a","l","y","z","e"," ",
      "t","h","e"," ","c","o","n","t","e","n","t"," ","s","t","r","u","c","t",
      "u","r","e",".">>

NoSummaryMessage ==
    <<"N","o"," ","s","u","m","m","a","r","y"," ","c","o","u","l","d"," ","b",
      "e"," ","g","e","n","e","r","a","t","e","d",".">>

FallbackMessage ==
    <<"U","n","a","b","l","e"," ","t","o"," ","g","e","n","e","r","a","t","e",
      " ","s","u","m","m","a","r","y","."," ","T","h","e"," ","i","s","s","u",
      "e"," ","c","o","n","t","e","n","t"," ","m","a","y"," ","b","e"," ","t",
      "o","o"," ","c","o","m","p","l","e","x"," ","o","r"," ","c","o","n","t",
      "a","i","n"," ","u","n","s","u","p","p","o","r","t","e","d"," ","f","o",
      "r","m","a","t","t","i","n","g",".">>

(***************************************************************************)
(* AIService._preprocess_text: the re.sub passes.  MatchEnd(kind, s, i) is *)
(* the last position of the match of pattern `kind` that starts at i, or 0 *)
(* when the pattern does not match there.                                  *)
(***************************************************************************)
\* the characters the URL pattern repeats after "://":
\* [a-zA-Z] | [0-9] | [$-_@.&+] | [!*\\(\\),] | %xx
IsUrlChar(c) ==
    /\ c \in PrintableSet
    /\ LET o == Ord(c) IN o = 33 \/ (o >= 36 /\ o <= 95) \/ (o >= 97 /\ o <= 122)

UrlChars == {c \in PrintableSet : IsUrlChar(c)}

MatchEnd(kind, s, i) ==
    LET n == Len(s) IN
    CASE kind = "fence" ->          \* ```[^`]*```
           IF HasAt(s, i, <<Backtick, Backtick, Backtick>>)
           THEN LET j == FirstIn(s, i + 3, {Backtick}) IN
                IF HasAt(s, j, <<Backtick, Backtick, Backtick>>) THEN j + 2 ELSE 0
           ELSE 0
      [] kind = "code" ->           \* `[^`]*`
           IF s[i] = Backtick
           THEN LET j == FirstIn(s, i + 1, {Backtick}) IN IF j <= n THEN j ELSE 0
           ELSE 0
      [] kind = "header" ->         \* #{1,6}\s*
           IF s[i] = "#"
           THEN LET h == Min2(FirstNotIn(s, i, {"#"}), i + 6) IN
                FirstNotIn(s, h, Spaces) - 1
           ELSE 0
      [] kind = "link" ->           \* \[([^\]]+)\]\([^\)]+\)
           IF s[i] = "["
           THEN LET j == FirstIn(s, i + 1, {"]"}) IN
                IF j > i + 1 /\ j + 1 <= n /\ s[j + 1] = "("
                THEN LET k == FirstIn(s, j + 2, {")"}) IN
                     IF k > j + 2 /\ k <= n THEN k ELSE 0
                ELSE 0
           ELSE 0
      [] kind = "url" ->            \* http[s]?://(?:...)+
           IF HasAt(s, i, <<"h", "t", "t", "p">>)
           THEN LET base == IF HasAt(s, i + 4, <<"s", ":", "/", "/">>) THEN i + 8
                            ELSE IF HasAt(s, i + 4, <<":", "/", "/">>) THEN i + 7
                            ELSE 0
                IN  IF base > 0 /\ base <= n /\ IsUrlChar(s[base])
                    THEN FirstNotIn(s, base, UrlChars) - 1
                    ELSE 0
           ELSE 0

\* what re.sub puts in place of the match s[i..e]
Replacement(kind, s, i, e) ==
    CASE kind = "fence" -> <<" ","[","c","o","d","e"," ","b","l","o","c","k","]"," ">>
      [] kind = "code" -> <<" ","[","c","o","d","e","]"," ">>
      [] kind = "header" -> << >>
      [] kind = "link" -> SubSeq(s, i + 1, FirstIn(s, i + 1, {"]"}) - 1)
      [] kind = "url" -> <<" ","[","U","R","L","]"," ">>

\* the character a match of `kind` starts with
Trigger(kind) ==
    CASE kind = "fence" -> Backtick
      [] kind = "code" -> Backtick
      [] kind = "header" -> "#"
      [] kind = "link" -> "["
      [] kind = "url" -> "h"

\* re.sub(pattern, repl, s) from position `from` on: leftmost matches, left to right
\* where the leftmost match of `kind` at or after `from` starts (0 if none)
FirstMatch(kind, s, from) ==
    Least({j \in from..Len(s) : s[j] = Trigger(kind) /\ MatchEnd(kind, s, j) > 0})

RECURSIVE re_sub(_, _, _)
re_sub(kind, s, from) ==
    With(FirstMatch(kind, s, from), LAMBDA i :
        IF i = 0 THEN SubSeq(s, from, Len(s))
        ELSE With(MatchEnd(kind, s, i), LAMBDA e :
                 SubSeq(s, from, i - 1) \o Replacement(kind, s, i, e)
                     \o re_sub(kind, s, e + 1)))

\* the length _preprocess_text cuts the text to
max_chars == 2000

_preprocess_text(text) ==
    LET t1 == split_join(text)
        t2 == re_sub("fence", t1, 1)
        t3 == re_sub("code", t2, 1)
        t4 == re_sub("header", t3, 1)
        t5 == re_sub("link", t4, 1)
        t6 == re_sub("url", t5, 1)
    IN  With(split_join(t6), LAMBDA t7 :
            IF Len(t7) > max_chars THEN SubSeq(t7, 1, max_chars) \o <<".", ".", ".">> ELSE t7)

(***************************************************************************)
(* AIService: sentences, scores, the draft summary and its finishing.      *)
(* Scores are kept in tenths (1.0 is 10), which the additive weights       *)
(* 1.0, 0.5, 0.3 and 0.4 make exact.                                       *)
(***************************************************************************)
Terminators == {".", "!", "?"}

\* a fragment must be longer than this to count as a sentence
MinSentenceChars == 10

_split_into_sentences(text) ==
    LET IsStart(i) == text[i] \notin Terminators /\ (i = 1 \/ text[i - 1] \in Terminators)
        starts == SelectSeq(Indices(text), IsStart)
        frags == [k \in 1..Len(starts) |->
                    strip(SubSeq(text, starts[k], FirstIn(text, starts[k], Terminators) - 1))]
        Qualifies(f) == Len(f) > MinSentenceChars
    IN  SelectSeq(frags, Qualifies)

\* _score_sentence, but counting at most three keywords
_score_sentence_capped(sentence, full_text) ==
    With(lower(sentence), LAMBDA sentence_lower :
    With(word_count(sentence), LAMBDA length :
        LET length_bonus == IF 5 <= length /\ length <= 20 THEN 10
                            ELSE IF length > 20 THEN 5 ELSE 0
            tech_words == Min2(3, Cardinality({w \in tech_keywords : Contains(sentence_lower, w)}))
            position_bonus == IF Contains(SliceTo(full_text, 200), sentence) THEN 5 ELSE 0
            query_bonus == IF \E w \in query_words : Contains(sentence_lower, w) THEN 3 ELSE 0
            defect_bonus == IF \E w \in defect_words : Contains(sentence_lower, w) THEN 4 ELSE 0
        IN  length_bonus + tech_words * 5 + position_bonus + query_bonus + defect_bonus))

_score_sentence(sentence, full_text) ==
    With(lower(sentence), LAMBDA sentence_lower :
    With(word_count(sentence), LAMBDA length :
        LET length_bonus == IF 5 <= length /\ length <= 20 THEN 10
                            ELSE IF length > 20 THEN 5 ELSE 0
            tech_words == Cardinality({w \in tech_keywords : Contains(sentence_lower, w)})
            position_bonus == IF Contains(SliceTo(full_text, 200), sentence) THEN 5 ELSE 0
            query_bonus == IF \E w \in query_words : Contains(sentence_lower, w) THEN 3 ELSE 0
            defect_bonus == IF \E w \in defect_words : Contains(sentence_lower, w) THEN 4 ELSE 0
        IN  length_bonus + tech_words * 5 + position_bonus + query_bonus + defect_bonus))

\* sep.join(parts)
RECURSIVE Join(_, _)
Join(parts, sep) ==
    IF parts = << >> THEN << >>
    ELSE IF Len(parts) = 1 THEN parts[1]
    ELSE parts[1] \o sep \o Join(Tail(parts), sep)

\* selected_indices, but with equal scores resolved in favour of the later sentence
selected_latest(scores, num) ==
    LET n == Len(scores)
        Before(j, i) == scores[j] > scores[i] \/ (scores[j] = scores[i] /\ j > i)
        Chosen(i) == Cardinality({j \in 1..n : Before(j, i)}) < num
    IN  SelectSeq([i \in 1..n |-> i], Chosen)

\* the indices of the num best-scored sentences, in original order; among equal
\* scores the stable sort keeps the earlier sentence first
selected_indices(scores, num) ==
    LET n == Len(scores)
        Before(j, i) == scores[j] > scores[i] \/ (scores[j] = scores[i] /\ j < i)
        Chosen(i) == Cardinality({j \in 1..n : Before(j, i)}) < num
    IN  SelectSeq([i \in 1..n |-> i], Chosen)

_generate_rule_based_summary(text, max_length) ==
    With(_split_into_sentences(text), LAMBDA sentences :
        IF sentences = << >> THEN NoStructureMessage
        ELSE LET scores == [i \in 1..Len(sentences) |-> _score_sentence(sentences[i], text)]
                 num_sentences == Min2(3, Max2(1, Len(sentences) \div 3))
             IN  With(selected_indices(scores, num_sentences), LAMBDA sel :
                 With(Join([k \in 1..Len(sel) |-> sentences[sel[k]]], <<" ">>), LAMBDA summary :
                     IF Len(summary) > max_length
                     THEN SliceTo(summary, max_length - 3) \o <<".", ".", ".">>
                     ELSE summary)))

_postprocess_summary(summary) ==
    IF summary = << >> THEN NoSummaryMessage
    ELSE With(split_join(summary), LAMBDA s1 :
         With(IF s1 # << >> /\ ~IsUpperChar(s1[1])
              THEN <<UpperChar(s1[1])>> \o Tail(s1) ELSE s1, LAMBDA s2 :
             IF s2 # << >> /\ s2[Len(s2)] \notin Terminators THEN s2 \o <<".">> ELSE s2))

\* the slack _expand_summary allows above min_length
ExpandSlack == 20

\* _expand_summary without the bound on the length of the expanded summary
_expand_summary_unbounded(text, summary, min_length, order) ==
    IF Len(summary) >= min_length THEN summary
    ELSE LET words == words_of(lower(text))
             summary_lower == lower(summary)
         IN  With(words, LAMBDA ws : With(summary_lower, LAMBDA sl :
             LET Eligible(k) == k \in ws /\ ~Contains(sl, k) IN
             With(SliceTo(SelectSeq(order, Eligible), 3), LAMBDA tech_context :
                 IF tech_context # << >>
                 THEN summary \o <<" ","R","e","l","a","t","e","d"," ","t","o",":"," ">>
                              \o Join(tech_context, <<",", " ">>) \o <<".">>
                 ELSE summary)))

\* `order` is the order in which the loop meets the vocabulary (a set: its
\* iteration order is not fixed by the program)
_expand_summary(text, summary, min_length, order) ==
    IF Len(summary) >= min_length THEN summary
    ELSE LET words == words_of(lower(text))
             summary_lower == lower(summary)
         IN  With(words, LAMBDA ws : With(summary_lower, LAMBDA sl :
             LET Eligible(k) == k \in ws /\ ~Contains(sl, k) IN
             With(SliceTo(SelectSeq(order, Eligible), 3), LAMBDA tech_context :
                 IF tech_context # << >>
                 THEN With(<<" ","R","e","l","a","t","e","d"," ","t","o",":"," ">> \o Join(tech_context, <<",", " ">>) \o <<".">>,
                           LAMBDA addition :
                               IF Len(summary) + Len(addition) <= min_length + ExpandSlack
                               THEN summary \o addition ELSE summary)
                 ELSE summary)))

\* an Optional[int] length argument
NoLen == << >>

\* below this many words the text is returned as it is
MinWords == 10
\* above this many words a short summary is expanded
ExpandWords == 20

\* summarize_text without the early return for short texts
summarize_always(text, max_length, min_length, order) ==
    IF text = << >> \/ strip(text) = << >> THEN NoContentMessage
    ELSE With(_preprocess_text(text), LAMBDA t :
         LET max_len == IF max_length = NoLen \/ max_length[1] = 0
                        THEN default_max_length ELSE max_length[1]
             min_len == IF min_length = NoLen \/ min_length[1] = 0
                        THEN default_min_length ELSE min_length[1]
         IN  With(_postprocess_summary(_generate_rule_based_summary(t, max_len)),
                  LAMBDA summary :
                      IF Len(summary) < min_len /\ word_count(t) > ExpandWords
                      THEN _expand_summary(t, summary, min_len, order)
                      ELSE summary))

summarize_text(text, max_length, min_length, order) ==
    IF text = << >> \/ strip(text) = << >> THEN NoContentMessage
    ELSE With(_preprocess_text(text), LAMBDA t :
         IF word_count(t) < MinWords THEN t ELSE
         LET max_len == IF max_length = NoLen \/ max_length[1] = 0
                        THEN default_max_length ELSE max_length[1]
             min_len == IF min_length = NoLen \/ min_length[1] = 0
                        THEN default_min_length ELSE min_length[1]
         IN  With(_postprocess_summary(_generate_rule_based_summary(t, max_len)),
                  LAMBDA summary :
                      IF Len(summary) < min_len /\ word_count(t) > ExpandWords
                      THEN _expand_summary(t, summary, min_len, order)
                      ELSE summary))

\* the type of the text argument: Optional[str]
TextKinds == {"str", "NoneType"}

\* the step of the try body at which an exception is raised, if any
NoFault == "none"
FaultSteps == {NoFault, "normalization", "scoring", "composition"}

\* whether a call on `text` gets as far as the step that raises
FaultReached(fault, text) ==
    CASE fault = NoFault -> FALSE
      [] fault = "normalization" -> TRUE
      [] fault = "scoring" ->
             With(_preprocess_text(text), LAMBDA t :
                 word_count(t) >= MinWords /\ _split_into_sentences(t) # << >>)
      [] fault = "composition" -> word_count(_preprocess_text(text)) >= MinWords

\* summarize_text without its except clause: the exception reaches the caller
summarize_text_unguarded(kind, text, max_length, min_length, order, fault) ==
    IF kind = "NoneType" \/ text = << >> \/ strip(text) = << >>
    THEN [ret |-> NoContentMessage, exc |-> FALSE]
    ELSE IF FaultReached(fault, text)
         THEN [ret |-> << >>, exc |-> TRUE]
         ELSE [ret |-> summarize_text(text, max_length, min_length, order), exc |-> FALSE]

\* a call of summarize_text: the guard (line 61), the try body and, when a step of
\* the body raises, the except clause (lines 89-91)
summarize_text_call(kind, text, max_length, min_length, order, fault) ==
    IF kind = "NoneType" \/ text = << >> \/ strip(text) = << >>
    THEN [ret |-> NoContentMessage, exc |-> FALSE]
    ELSE IF FaultReached(fault, text)
         THEN [ret |-> FallbackMessage, exc |-> FALSE]
         ELSE [ret |-> summarize_text(text, max_length, min_length, order), exc |-> FALSE]

\* the vocabulary words among the words of the text: the only ones whose place in
\* the iteration order can matter
KeywordWords(text) == tech_keywords \cap words_of(lower(_preprocess_text(text)))

\* every order in which a set can be iterated
Orders(S) == {o \in [1..Cardinality(S) -> S] : \A i, j \in 1..Cardinality(S) : i # j => o[i] # o[j]}

(***************************************************************************)
(* The backing store (flask_caching.Cache): entries with an expiry time.   *)
(* An entry is readable while now < expires.                               *)
(***************************************************************************)
NoEntry == [present |-> FALSE, value |-> None, expires |-> 0]

BackendGet(st, t, key) ==
    IF st[key].present /\ t < st[key].expires THEN st[key].value ELSE None

\* a set that is not atomic: over an entry that holds another value it leaves a
\* mix of the two
BackendSetTorn(st, t, key, value, timeout) ==
    [st EXCEPT ![key] =
        [present |-> TRUE,
         value |-> IF st[key].present /\ st[key].value # value
                   THEN "mixed" ELSE value,
         expires |-> t + timeout]]

BackendSet(st, t, key, value, timeout) ==
    [st EXCEPT ![key] = [present |-> TRUE, value |-> value, expires |-> t + timeout]]

BackendDelete(st, key) == [st EXCEPT ![key] = NoEntry]

BackendClear(st) == [k \in DOMAIN st |-> NoEntry]

(***************************************************************************)
(* CacheService methods.  Each returns [ret, exc, st]: the value returned, *)
(* whether an exception left the method, and the store afterwards.         *)
(* `fail` says whether the backend call of this invocation raises.         *)
(***************************************************************************)
get(st, t, key, fail) ==
    IF fail
    THEN [ret |-> None, exc |-> FALSE, st |-> st]              \* except: return None
    ELSE [ret |-> BackendGet(st, t, key), exc |-> FALSE, st |-> st]

\* timeout = timeout or self.default_timeout
EffectiveTimeout(timeout) ==
    IF timeout = NoTimeout \/ timeout[1] = 0 THEN default_timeout ELSE timeout[1]

\* set, but letting the backend's exception out
set_propagates(st, t, key, value, timeout, fail) ==
    IF fail
    THEN [ret |-> None, exc |-> TRUE, st |-> st]
    ELSE [ret |-> PyTrue, exc |-> FALSE,
          st |-> BackendSet(st, t, key, value, EffectiveTimeout(timeout))]

set(st, t, key, value, timeout, fail) ==
    IF fail
    THEN [ret |-> PyFalse, exc |-> FALSE, st |-> st]           \* except: return False
    ELSE [ret |-> PyTrue, exc |-> FALSE,
          st |-> BackendSet(st, t, key, value, EffectiveTimeout(timeout))]

\* delete, but never reaching the backend
delete_noop(st, key, fail) == [ret |-> PyTrue, exc |-> FALSE, st |-> st]

delete(st, key, fail) ==
    IF fail
    THEN [ret |-> PyFalse, exc |-> FALSE, st |-> st]
    ELSE [ret |-> PyTrue, exc |-> FALSE, st |-> BackendDelete(st, key)]

clear_all(st, fail) ==
    IF fail
    THEN [ret |-> PyFalse, exc |-> FALSE, st |-> st]
    ELSE [ret |-> PyTrue, exc |-> FALSE, st |-> BackendClear(st)]

(***************************************************************************)
(* A producer (callable_func) is a script: its outcome at the first and at *)
(* the second invocation, each either a returned value or an exception.    *)
(***************************************************************************)
Raises == [exc |-> TRUE, val |-> None]
Returns(v) == [exc |-> FALSE, val |-> v]
Outcomes == {Raises} \cup {Returns(v) : v \in Values}
\* the second invocation is reached only after a first one that raised
Producers == {p \in [1..2 -> Outcomes] : ~p[1].exc => p[2] = p[1]}

\* the except branch of get_or_set (lines 142-149): call the producer again
\* `n` is the number of producer invocations made so far
get_or_set_except(st, producer, n) ==
    LET p == producer[n + 1] IN
    IF p.exc
    THEN [ret |-> None, exc |-> TRUE, st |-> st, calls |-> n + 1, hit |-> FALSE]
    ELSE [ret |-> p.val, exc |-> FALSE, st |-> st, calls |-> n + 1, hit |-> FALSE]

\* get_or_set, but never storing what the producer returned
get_or_set_nostore(st, t, key, producer, timeout, getFail, setFail) ==
    LET g == get(st, t, key, getFail) IN
    IF g.exc THEN get_or_set_except(st, producer, 0)
    ELSE IF g.ret # None
    THEN [ret |-> g.ret, exc |-> FALSE, st |-> st, calls |-> 0, hit |-> TRUE]
    ELSE LET p == producer[1] IN
         IF p.exc THEN get_or_set_except(st, producer, 1)
         ELSE [ret |-> p.val, exc |-> FALSE, st |-> st, calls |-> 1, hit |-> FALSE]

\* get_or_set, but storing what the producer's second invocation returned
get_or_set_storing_retry(st, t, key, producer, timeout, getFail, setFail) ==
    LET g == get(st, t, key, getFail) IN
    IF g.exc THEN get_or_set_except(st, producer, 0)
    ELSE IF g.ret # None
    THEN [ret |-> g.ret, exc |-> FALSE, st |-> st, calls |-> 0, hit |-> TRUE]
    ELSE LET p == producer[1] IN
         IF p.exc
         THEN LET e == get_or_set_except(st, producer, 1) IN
              IF e.exc THEN e
              ELSE [e EXCEPT !.st = set(st, t, key, e.ret, timeout, setFail).st]
         ELSE LET s == set(st, t, key, p.val, timeout, setFail) IN
              IF s.exc THEN get_or_set_except(s.st, producer, 1)
              ELSE [ret |-> p.val, exc |-> FALSE, st |-> s.st, calls |-> 1,
                    hit |-> FALSE]

get_or_set(st, t, key, producer, timeout, getFail, setFail) ==
    LET g == get(st, t, key, getFail) IN
    IF g.exc THEN get_or_set_except(st, producer, 0)
    ELSE IF g.ret # None
    THEN [ret |-> g.ret, exc |-> FALSE, st |-> st, calls |-> 0, hit |-> TRUE]
    ELSE LET p == producer[1] IN
         IF p.exc THEN get_or_set_except(st, producer, 1)
         ELSE LET s == set(st, t, key, p.val, timeout, setFail) IN
              IF s.exc THEN get_or_set_except(s.st, producer, 1)
              ELSE [ret |-> p.val, exc |-> FALSE, st |-> s.st, calls |-> 1,
                    hit |-> FALSE]

\* health_check: set, get, delete of the test key; True iff the value came back
health_check(st, t, setFail, getFail, delFail) ==
    LET s == set(st, t, HealthKey, HealthValue, <<TickSeconds>>, setFail)
        g == get(s.st, t, HealthKey, getFail)
        d == delete(s.st, HealthKey, delFail)
    IN  IF s.exc \/ g.exc \/ d.exc
        THEN [ret |-> PyFalse, exc |-> FALSE, st |-> d.st]
        ELSE [ret |-> IF g.ret = HealthValue THEN PyTrue ELSE PyFalse,
              exc |-> FALSE, st |-> d.st]

(***************************************************************************)
(* State machine of the cache.                                             *)
(*   store   the backing store's entries                                   *)
(*   now     the clock, in seconds                                         *)
(*   last    the most recent operation, its inputs and what it returned    *)
(*   prev    the operation before it, when that was a get_or_set           *)
(*   latest  per key, the most recent value a caller asked to store and    *)
(*           that no caller has since asked to delete or clear             *)
(***************************************************************************)
NoOp == [op |-> "init", key |-> None, timeout |-> NoTimeout, ret |-> None,
         exc |-> FALSE, calls |-> 0, hit |-> FALSE, fault |-> FALSE,
         first |-> "none", pval |-> None]

NoPrev == [valid |-> FALSE, key |-> None, ret |-> None, calls |-> 0, clean |-> FALSE]

NoLatest == [live |-> FALSE, value |-> None, deadline |-> 0]

\* what `latest` becomes once the backend has failed: nothing is known any more
Unknown == [k \in StoreKeys |-> [live |-> FALSE, value |-> "?", deadline |-> 0]]

LatestAfter(lt, fault, new) == IF fault \/ lt = Unknown THEN Unknown ELSE new

CacheInit ==
    /\ store = [k \in StoreKeys |-> NoEntry]
    /\ now = 0
    /\ last = NoOp
    /\ prev = NoPrev
    /\ latest = [k \in StoreKeys |-> NoLatest]

Get(key, fail) ==
    LET r == get(store, now, key, fail) IN
    /\ store' = r.st
    /\ last' = [NoOp EXCEPT !.op = "get", !.key = key, !.ret = r.ret, !.exc = r.exc,
                            !.fault = fail]
    /\ prev' = NoPrev
    /\ latest' = LatestAfter(latest, fail, latest)
    /\ UNCHANGED now

Set(key, value, timeout, fail) ==
    LET r == set(store, now, key, value, timeout, fail) IN
    /\ store' = r.st
    /\ last' = [NoOp EXCEPT !.op = "set", !.key = key, !.timeout = timeout,
                            !.ret = r.ret, !.exc = r.exc, !.fault = fail]
    /\ prev' = NoPrev
    /\ latest' = LatestAfter(latest, fail,
                     [latest EXCEPT ![key] =
                        [live |-> TRUE, value |-> value,
                         deadline |-> now + EffectiveTimeout(timeout)]])
    /\ UNCHANGED now

Delete(key, fail) ==
    LET r == delete(store, key, fail) IN
    /\ store' = r.st
    /\ last' = [NoOp EXCEPT !.op = "delete", !.key = key, !.ret = r.ret,
                            !.exc = r.exc, !.fault = fail]
    /\ prev' = NoPrev
    /\ latest' = LatestAfter(latest, fail, [latest EXCEPT ![key] = NoLatest])
    /\ UNCHANGED now

ClearAll(fail) ==
    LET r == clear_all(store, fail) IN
    /\ store' = r.st
    /\ last' = [NoOp EXCEPT !.op = "clear_all", !.ret = r.ret, !.exc = r.exc,
                            !.fault = fail]
    /\ prev' = NoPrev
    /\ latest' = LatestAfter(latest, fail, [k \in StoreKeys |-> NoLatest])
    /\ UNCHANGED now

\* how the producer's first invocation ended, when there was one
FirstOutcome(producer, calls) ==
    IF calls = 0 THEN "none"
    ELSE IF producer[1].exc THEN "raise"
    ELSE IF producer[1].val = None THEN "retNone" ELSE "ret"

GetOrSet(key, producer, timeout, plan) ==
    LET getFail == plan \in {"get", "both"}
        setFail == plan \in {"set", "both"}
        r == get_or_set(store, now, key, producer, timeout, getFail, setFail)
        \* the backend's set is reached only after a first invocation that returned
        setReached == r.calls = 1 /\ ~producer[1].exc
        fault == getFail \/ (setReached /\ setFail)
    IN
    /\ store' = r.st
    /\ last' = [op |-> "get_or_set", key |-> key, timeout |-> timeout,
                ret |-> r.ret, exc |-> r.exc, calls |-> r.calls, hit |-> r.hit,
                fault |-> fault, first |-> FirstOutcome(producer, r.calls),
                pval |-> IF r.calls = 0 THEN None ELSE producer[1].val]
    /\ prev' = IF last.op = "get_or_set" /\ ~last.exc
               THEN [valid |-> TRUE, key |-> last.key, ret |-> last.ret,
                     calls |-> last.calls,
                     clean |-> ~last.fault /\ ~last.hit /\ last.first = "ret"]
               ELSE NoPrev
    /\ latest' = LatestAfter(latest, fault,
                     IF setReached
                     THEN [latest EXCEPT ![key] =
                             [live |-> TRUE, value |-> producer[1].val,
                              deadline |-> now + EffectiveTimeout(timeout)]]
                     ELSE latest)
    /\ UNCHANGED now

HealthCheck(setFail, getFail, delFail) ==
    LET r == health_check(store, now, setFail, getFail, delFail) IN
    /\ store' = r.st
    /\ last' = [NoOp EXCEPT !.op = "health_check", !.key = HealthKey, !.ret = r.ret,
                            !.exc = r.exc,
                            !.fault = setFail \/ getFail \/ delFail]
    /\ prev' = NoPrev
    /\ latest' = LatestAfter(latest, setFail \/ getFail \/ delFail,
                             [latest EXCEPT ![HealthKey] = NoLatest])
    /\ UNCHANGED now

\* time passes
Tick ==
    /\ now < MaxTicks * TickSeconds
    /\ now' = now + TickSeconds
    /\ last' = [NoOp EXCEPT !.op = "tick"]
    /\ prev' = NoPrev
    /\ UNCHANGED <<store, latest>>

CacheNext(Faults, Plans, Touts) ==
    \/ \E k \in StoreKeys, f \in Faults : Get(k, f)
    \/ \E k \in Keys, v \in Values, t \in Touts, f \in Faults : Set(k, v, t, f)
    \/ \E k \in Keys, f \in Faults : Delete(k, f)
    \/ \E f \in Faults : ClearAll(f)
    \/ \E k \in Keys, p \in Producers, t \in Touts, plan \in Plans :
          GetOrSet(k, p, t, plan)
    \/ \E sf \in Faults, gf \in Faults, df \in Faults : HealthCheck(sf, gf, df)
    \/ Tick

(***************************************************************************)
(* State machine of the key builder: a caller builds the key of one        *)
(* parameter set repeatedly, supplying the parameters in varying order.    *)
(*   kPrefix, kArgs  the arguments of the next call                        *)
(*   kKey            the key the last call returned                        *)
(*   kFirst          the key the first call returned                       *)
(*   kCalls          the number of calls made                              *)
(***************************************************************************)
KeyIdle ==
    /\ kPrefix = << >> /\ kArgs = << >> /\ kKey = << >> /\ kFirst = << >>
    /\ kCalls = 0

KeyInit ==
    /\ kPrefix \in KeyPrefixes
    /\ kArgs \in KeyArgLists
    /\ kKey = << >> /\ kFirst = << >>
    /\ kCalls = 0

GenerateCacheKey ==
    /\ kCalls < MaxKeyCalls
    /\ kKey' = generate_cache_key(kPrefix, kArgs)
    /\ kFirst' = IF kCalls = 0 THEN kKey' ELSE kFirst
    /\ kCalls' = kCalls + 1
    /\ UNCHANGED <<kPrefix, kArgs>>

\* the caller supplies the same parameters in another order
Reorder ==
    \E i, j \in 1..Len(kArgs) :
        /\ i < j
        /\ kArgs' = [kArgs EXCEPT ![i] = kArgs[j], ![j] = kArgs[i]]
        /\ UNCHANGED <<kPrefix, kKey, kFirst, kCalls>>

(***************************************************************************)
(* State machine of the summarizer: a caller summarizes one text, more     *)
(* than once, with the same length arguments; the service process may be   *)
(* started anew between calls.                                             *)
(*   sKind, sText       the text argument: its type, and its characters    *)
(*   sMax, sMin         the length arguments                               *)
(*   sOrder             the order in which this process iterates the set   *)
(*                      tech_keywords (fixed while the process lives)      *)
(*   sFault             the step that raised in the last call              *)
(*   sFaulted           whether a step has raised in any call so far       *)
(*   sResult, sExc      what the last call returned, whether it raised     *)
(*   sFirst             the string the first call returned                 *)
(*   sCalls             the number of calls made                           *)
(***************************************************************************)
MaxSumCalls == 2

EmptyText ==
    << >>
BlankText ==
    <<" "," ","\n"," ">>
ShortText ==
    <<"f","i","x"," ","l","o","g","i","n"," ","b","u","g">>
MarkupText ==
    <<"#","#"," ","C","r","a","s","h"," "," "," ","i","n"," ",Backtick,"f",
      "o","o","(",")",Backtick," ","s","e","e"," ","h","t","t","p",":","/",
      "/","x",".","i","o","/","a">>
NineWords ==
    <<"t","h","e"," ","e","x","p","o","r","t"," ","j","o","b"," ","s","t","o",
      "p","s"," ","a","f","t","e","r"," ","t","h","e"," ","f","i","r","s","t",
      " ","p","a","g","e"," ","l","o","a","d","s">>
TenWords ==
    <<"t","h","e"," ","e","x","p","o","r","t"," ","j","o","b"," ","s","t","o",
      "p","s"," ","a","f","t","e","r"," ","t","h","e"," ","f","i","r","s","t",
      " ","p","a","g","e"," ","l","o","a","d","s"," ","t","o","d","a","y">>
ScenarioText ==
    <<"T","h","i","s"," ","b","u","g"," ","c","a","u","s","e","s"," ","t","h",
      "e"," ","a","p","p"," ","t","o"," ","c","r","a","s","h"," ","w","h","e",
      "n"," ","c","l","i","c","k","i","n","g"," ","s","u","b","m","i","t",".",
      " ","I","t"," ","h","a","p","p","e","n","s"," ","e","v","e","r","y"," ",
      "t","i","m","e"," ","o","n"," ","t","h","e"," ","l","o","g","i","n"," ",
      "p","a","g","e","."," ","U","s","e","r","s"," ","r","e","p","o","r","t",
      " ","l","o","s","i","n","g"," ","t","h","e","i","r"," ","s","e","s","s",
      "i","o","n"," ","d","a","t","a",".">>
FragmentsText ==
    <<"a"," ","b"," ","c","."," ","d"," ","e"," ","f","."," ","g"," ","h"," ",
      "i","."," ","j"," ","k"," ","l","."," ","m"," ","n"," ","o",".">>
ExpandText ==
    <<"L","o","g","i","n"," ","s","h","o","w","s"," ","a","n"," ","e","r","r",
      "o","r"," ","n","o","w","."," ","W","e"," ","l","o","o","k","e","d"," ",
      "a","t"," ","i","t"," ","f","o","r"," ","a"," ","l","o","n","g"," ","t",
      "i","m","e"," ","a","n","d"," ","t","h","e"," ","c","a","l","l","s"," ",
      "t","o"," ","t","h","e"," ","a","p","i"," ","f","r","o","m"," ","t","h",
      "e"," ","w","e","b"," ","p","a","g","e"," ","a","n","d"," ","f","r","o",
      "m"," ","t","h","e"," ","o","t","h","e","r"," ","p","a","g","e","s"," ",
      "a","l","l"," ","e","n","d"," ","t","h","e"," ","s","a","m","e"," ","w",
      "a","y">>
TightText ==
    <<"L","o","g","i","n"," ","s","h","o","w","s"," ","a","n"," ","e","r","r",
      "o","r"," ","n","o","w","."," ","W","e"," ","l","o","o","k","e","d"," ",
      "a","t"," ","i","t"," ","f","o","r"," ","a"," ","l","o","n","g"," ","t",
      "i","m","e"," ","a","n","d"," ","t","h","e"," ","a","u","t","h","e","n",
      "t","i","c","a","t","i","o","n"," ","a","n","d"," ","t","h","e"," ","p",
      "e","r","f","o","r","m","a","n","c","e"," ","a","n","d"," ","t","h","e",
      " ","d","a","t","a","b","a","s","e"," ","a","l","l"," ","s","e","e","m",
      " ","t","o"," ","b","e"," ","i","n"," ","t","h","e"," ","s","a","m","e",
      " ","s","t","a","t","e"," ","a","s"," ","b","e","f","o","r","e">>
ExactText ==
    <<"T","h","e"," ","e","x","p","o","r","t"," ","j","o","b"," ","s","t","o",
      "p","s"," ","a","f","t","e","r"," ","t","h","e"," ","f","i","r","s","t",
      " ","p","a","g","e"," ","o","f"," ","r","e","s","u","l","t","s"," ","a",
      "n","d"," ","t","h","e","n"," ","i","t"," ","w","r","i","t","e","s"," ",
      "a","n"," ","e","m","p","t","y"," ","f","i","l","e"," ","t","o"," ","t",
      "h","e"," ","s","h","a","r","e","d"," ","f","o","l","d","e","r","s"," ",
      "s","o"," ","t","h","e"," ","n","i","g","h","t","l","y"," ","r","e","p",
      "o","r","t","s"," ","h","a","v","e"," ","n","o"," ","r","o","w","s"," ",
      "a","t"," ","a","l","l",".">>
LongText ==
    <<"T","h","e"," ","i","m","p","o","r","t","e","r"," ","r","e","a","d","s",
      " ","e","v","e","r","y"," ","r","o","w"," ","o","f"," ","t","h","e"," ",
      "u","p","l","o","a","d","e","d"," ","s","h","e","e","t"," ","t","w","i",
      "c","e"," ","a","n","d"," ","t","h","e","n"," ","k","e","e","p","s"," ",
      "b","o","t","h"," ","c","o","p","i","e","s"," ","i","n"," ","m","e","m",
      "o","r","y"," ","u","n","t","i","l"," ","t","h","e"," ","w","h","o","l",
      "e"," ","r","e","q","u","e","s","t"," ","h","a","s"," ","f","i","n","i",
      "s","h","e","d",","," ","w","h","i","c","h"," ","m","a","k","e","s"," ",
      "l","a","r","g","e"," ","u","p","l","o","a","d","s"," ","f","a","i","l",
      " ","w","i","t","h"," ","a"," ","t","i","m","e","o","u","t"," ","o","n",
      " ","t","h","e"," ","s","m","a","l","l","e","r"," ","p","l","a","n",
      "s">>

Texts == {EmptyText, BlankText, ShortText, MarkupText,
          NineWords, TenWords, ScenarioText, FragmentsText,
          ExpandText, TightText, ExactText, LongText}

MaxLengths == {NoLen, <<0>>, <<40>>}
MinLengths == {NoLen, <<20>>, <<60>>}

SumIdle ==
    /\ sKind = "str" /\ sText = << >> /\ sMax = NoLen /\ sMin = NoLen
    /\ sOrder = << >> /\ sFault = NoFault /\ sFaulted = FALSE
    /\ sResult = << >> /\ sExc = FALSE /\ sFirst = << >>
    /\ sCalls = 0

SumInit ==
    /\ \/ sKind = "str" /\ sText \in Texts
       \/ sKind = "NoneType" /\ sText = << >>
    /\ sMax \in MaxLengths
    /\ sMin \in MinLengths
    /\ sOrder \in Orders(KeywordWords(sText))
    /\ sFault = NoFault /\ sFaulted = FALSE
    /\ sResult = << >> /\ sExc = FALSE /\ sFirst = << >>
    /\ sCalls = 0

Summarize ==
    /\ sCalls < MaxSumCalls
    /\ \E fault \in FaultSteps :
           LET r == summarize_text_call(sKind, sText, sMax, sMin, sOrder, fault) IN
           /\ sResult' = r.ret
           /\ sExc' = r.exc
           /\ sFault' = IF r.ret = FallbackMessage THEN fault ELSE NoFault
    /\ sFaulted' = (sFaulted \/ sFault' # NoFault)
    /\ sFirst' = IF sCalls = 0 THEN sResult' ELSE sFirst
    /\ sCalls' = sCalls + 1
    /\ UNCHANGED <<sKind, sText, sMax, sMin, sOrder>>

\* the service is started in a new process: the set tech_keywords is built again
\* and its iteration order follows the new process's string hashing
Restart ==
    /\ sCalls >= 1 /\ sCalls < MaxSumCalls
    /\ \E order \in Orders(KeywordWords(sText)) :
           /\ order # sOrder
           /\ sOrder' = order
    /\ UNCHANGED <<sKind, sText, sMax, sMin, sFault, sFaulted, sResult, sExc, sFirst, sCalls>>

(***************************************************************************)
(* State machine of the summarizing steps: the functions summarize_text    *)
(* calls, applied one after the other to a raw text as the method does.    *)
(*   pText         the raw text                                            *)
(*   pMax, pMin    the max_length and the min_length in effect             *)
(*   pStage        how far the steps have got                              *)
(*   pNorm         what _preprocess_text returned                          *)
(*   pSentences    what _split_into_sentences returned for pNorm           *)
(*   pScores       what _score_sentence returned for each sentence         *)
(*   pDraft        what _generate_rule_based_summary returned for pNorm    *)
(*   pOrder        the order in which the vocabulary was iterated          *)
(*   pOut          the summary after post-processing and expansion         *)
(***************************************************************************)
\* t repeated up to n characters
Cycle(t, n) == [i \in 1..n |-> t[((i - 1) % Len(t)) + 1]]

\* raw texts around the length _preprocess_text cuts at
LongTexts ==
    {Cycle(ScenarioText \o <<" ">>, max_chars - 1),
     <<"A">> \o Cycle(ScenarioText \o <<" ">>, max_chars - 1),
     Cycle(ScenarioText \o <<" ">>, max_chars + 1),
     Cycle(ScenarioText \o <<" ">>, max_chars + 300)}

\* texts with many sentences, equal scores, fragments around the length a
\* sentence needs, and sentences that collect every kind of bonus
TieText ==
    <<"T","h","e"," ","f","i","r","s","t"," ","p","a","g","e"," ","l","o","a",
      "d","s"," ","v","e","r","y"," ","l","a","t","e","."," ","W","e"," ","t",
      "r","i","e","d"," ","i","t"," ","a","g","a","i","n"," ","o","n"," ","m",
      "o","n","d","a","y","."," ","T","h","e"," ","t","o","t","a","l","s"," ",
      "a","r","e"," ","t","h","e"," ","s","a","m","e"," ","a","s"," ","b","e",
      "f","o","r","e","."," ","N","o","b","o","d","y"," ","c","h","a","n","g",
      "e","d"," ","t","h","e"," ","s","e","t","t","i","n","g","s"," ","s","i",
      "n","c","e"," ","t","h","e","n","."," ","T","h","e"," ","s","e","c","o",
      "n","d"," ","r","u","n"," ","e","n","d","e","d"," ","t","h","e"," ","s",
      "a","m","e"," ","w","a","y","."," ","A"," ","d","a","t","a","b","a","s",
      "e"," ","e","r","r","o","r"," ","a","p","p","e","a","r","s"," ","i","n",
      " ","t","h","e"," ","l","o","g",".">>
NineText ==
    <<"T","h","e"," ","s","y","n","c"," ","j","o","b"," ","r","a","n"," ","a",
      "t"," ","n","o","o","n","."," ","I","t"," ","c","o","p","i","e","d"," ",
      "t","h","e"," ","f","i","r","s","t"," ","n","i","n","e"," ","f","i","l",
      "e","s","."," ","T","h","e","n"," ","t","h","e"," ","a","p","i"," ","r",
      "e","t","u","r","n","e","d"," ","a","n"," ","e","r","r","o","r","."," ",
      "W","h","y"," ","d","o","e","s"," ","t","h","e"," ","s","e","r","v","e",
      "r"," ","d","r","o","p"," ","t","h","e"," ","c","a","l","l","?"," ","T",
      "h","e"," ","l","o","g"," ","h","a","s"," ","n","o"," ","e","n","t","r",
      "y"," ","f","o","r"," ","i","t","."," ","W","e"," ","t","r","i","e","d",
      " ","i","t"," ","a","g","a","i","n"," ","o","n"," ","m","o","n","d","a",
      "y","."," ","T","h","e"," ","d","a","t","a","b","a","s","e"," ","w","a",
      "s"," ","n","o","t"," ","b","u","s","y"," ","a","t"," ","a","l","l",".",
      " ","A"," ","s","e","c","o","n","d"," ","e","r","r","o","r"," ","c","a",
      "m","e"," ","u","p"," ","a","t"," ","n","i","g","h","t","."," ","N","o",
      "b","o","d","y"," ","c","h","a","n","g","e","d"," ","t","h","e"," ","s",
      "e","t","t","i","n","g","s"," ","s","i","n","c","e"," ","t","h","e","n",
      "."," ","T","h","a","n","k","s",".">>
EdgeText ==
    <<"I","t"," ","c","r","a","s","h","e","s","."," ","I","t"," ","c","r","a",
      "s","h","e","d","!","!"," ","T","e","n"," ","c","h","a","r","s"," ",".",
      " ","S","h","o","r","t"," ","o","n","e","."," ","D","o","e","s"," ","i",
      "t"," ","w","o","r","k"," ","n","o","w","?","!"," ","o","k","."," "," ",
      " ","T","h","e"," ","b","u","i","l","d"," ","i","s"," "," ","g","r","e",
      "e","n">>
ScoreText ==
    <<"T","h","i","s"," ","h","a","p","p","e","n","s"," ","o","n"," ","t","h",
      "e"," ","l","o","g","i","n"," ","p","a","g","e"," ","o","f"," ","t","h",
      "e"," ","w","e","b"," ","a","p","p"," ","a","n","d"," ","t","h","e"," ",
      "m","o","b","i","l","e"," ","a","p","p"," ","w","h","e","n"," ","t","h",
      "e"," ","u","s","e","r"," ","c","l","i","c","k","s"," ","t","h","e"," ",
      "s","a","v","e"," ","b","u","t","t","o","n"," ","i","n"," ","t","h","e",
      " ","s","e","t","t","i","n","g","s"," ","f","o","r","m"," ","t","w","i",
      "c","e","."," ","B","a","d","."," ","W","e"," ","n","e","e","d"," ","a",
      " ","f","i","x"," ","f","o","r"," ","t","h","e"," ","a","p","i"," ","e",
      "r","r","o","r"," ","b","e","c","a","u","s","e"," ","t","h","e"," ","d",
      "a","t","a","b","a","s","e"," ","q","u","e","r","y"," ","i","s"," ","s",
      "l","o","w"," ","a","n","d"," ","t","h","e"," ","s","e","r","v","e","r",
      " ","s","h","o","w","s"," ","a"," ","t","i","m","e","o","u","t">>
ManyText ==
    <<"W","h","y"," ","i","s"," ","t","h","e"," ","l","o","g","i","n"," ","b",
      "r","o","k","e","n","?"," ","W","e"," ","l","o","o","k","e","d"," ","a",
      "t"," ","i","t"," ","f","o","r"," ","a"," ","l","o","n","g"," ","t","i",
      "m","e"," ","o","n"," ","m","o","n","d","a","y"," ","a","n","d"," ","t",
      "h","e","n"," ","o","n","c","e"," ","m","o","r","e"," ","o","n"," ","t",
      "h","e"," ","d","a","y"," ","a","f","t","e","r"," ","t","h","a","t"," ",
      "a","n","d"," ","t","h","e"," ","s","t","e","p","s"," ","w","e"," ","t",
      "o","o","k"," ","a","r","e"," ","a","l","l"," ","i","n"," ","t","h","e",
      " ","n","o","t","e","s"," ","t","h","a","t"," ","w","e"," ","k","e","e",
      "p"," ","f","o","r"," ","t","h","e"," ","w","h","o","l","e"," ","t","e",
      "a","m"," ","h","e","r","e","."," ","A","p","i"," ","w","e","b"," ","u",
      "i"," ","u","x">>
StepTexts == {TieText, NineText, EdgeText, ScoreText, ManyText}

RawTexts == Texts \cup LongTexts \cup StepTexts

PipeMaxLengths == {40, default_max_length}
PipeMinLengths == {20, default_min_length, 60}

PipeIdle ==
    /\ pText = << >> /\ pMax = default_max_length /\ pMin = default_min_length
    /\ pStage = "idle"
    /\ pNorm = << >> /\ pSentences = << >> /\ pScores = << >> /\ pDraft = << >>
    /\ pOrder = << >> /\ pOut = << >>

PipeInit ==
    /\ pText \in RawTexts
    /\ pMax \in PipeMaxLengths
    /\ pMin \in PipeMinLengths
    /\ pStage = "raw"
    /\ pNorm = << >> /\ pSentences = << >> /\ pScores = << >> /\ pDraft = << >>
    /\ pOrder = << >> /\ pOut = << >>

Preprocess ==
    /\ pStage = "raw"
    /\ pNorm' = _preprocess_text(pText)
    /\ pStage' = "normalized"
    /\ UNCHANGED <<pText, pMax, pMin, pSentences, pScores, pDraft, pOrder, pOut>>

Split ==
    /\ pStage = "normalized"
    /\ pSentences' = _split_into_sentences(pNorm)
    /\ pStage' = "split"
    /\ UNCHANGED <<pText, pMax, pMin, pNorm, pScores, pDraft, pOrder, pOut>>

Score ==
    /\ pStage = "split"
    /\ pScores' = [i \in 1..Len(pSentences) |-> _score_sentence(pSentences[i], pNorm)]
    /\ pStage' = "scored"
    /\ UNCHANGED <<pText, pMax, pMin, pNorm, pSentences, pDraft, pOrder, pOut>>

Draft ==
    /\ pStage = "scored"
    /\ pDraft' = _generate_rule_based_summary(pNorm, pMax)
    /\ pStage' = "drafted"
    /\ UNCHANGED <<pText, pMax, pMin, pNorm, pSentences, pScores, pOrder, pOut>>

\* the keywords the loop of _expand_summary collects when it goes through the
\* whole vocabulary: the only ones whose place in the iteration order can matter
MissingKeywords(text, summary) ==
    With(words_of(lower(text)), LAMBDA ws : With(lower(summary), LAMBDA sl :
        tech_keywords \cap {k \in tech_keywords : k \in ws /\ ~Contains(sl, k)}))

\* the rest of summarize_text (lines 80-87), reached when the normalized text has
\* 10 words or more; when _expand_summary gets to its loop, the vocabulary is
\* iterated in some order
Expand ==
    /\ pStage = "drafted"
    /\ word_count(pNorm) >= MinWords
    /\ With(_postprocess_summary(pDraft), LAMBDA summary :
           IF Len(summary) < pMin /\ word_count(pNorm) > ExpandWords
           THEN \E order \in Orders(MissingKeywords(pNorm, summary)) :
                    /\ pOrder' = order
                    /\ pOut' = _expand_summary(pNorm, summary, pMin, order)
           ELSE /\ pOrder' = << >>
                /\ pOut' = summary)
    /\ pStage' = "expanded"
    /\ UNCHANGED <<pText, pMax, pMin, pNorm, pSentences, pScores, pDraft>>

(***************************************************************************)
(* State machine of concurrent get_or_set calls: several callers, each in  *)
(* its own thread, call get_or_set on one key; the backend's get and set   *)
(* are atomic and the callers' steps interleave in any order.              *)
(*   ccPc      where each caller is: before self.get ("get"), before the   *)
(*             producer's first invocation ("call"), before self.set       *)
(*             ("set"), before the invocation of the except clause         *)
(*             ("retry"), or returned ("done")                             *)
(*   ccValue   each caller's computed_value                                *)
(*   ccRet     what each caller returned, or that it raised                *)
(*   ccCalls   how many times each caller has invoked its producer         *)
(*   ccOwn     the values each caller's producer has returned              *)
(*   ccStored  the values the key has held                                 *)
(***************************************************************************)
NumCallers == 2
Callers == 1..NumCallers

ConcKey == "k1"

\* what the n-th invocation of caller c's producer returns, when it returns a
\* value: a value that names the invocation
ResultNames ==
    <<<<"a1", "a2">>, <<"b1", "b2">>, <<"c1", "c2">>, <<"d1", "d2">>>>
ResultOf(c, n) == ResultNames[c][n]

\* what an earlier call left under the key
EarlierResult == "earlier"

\* how an invocation of the producer ends: it returns a value, returns None, or
\* raises
Endings == {"value", "none", "raise"}

NoReturn == [ret |-> None, exc |-> FALSE]

ConcIdle ==
    /\ ccPc = [c \in Callers |-> "idle"]
    /\ ccValue = [c \in Callers |-> None]
    /\ ccRet = [c \in Callers |-> NoReturn]
    /\ ccCalls = [c \in Callers |-> 0]
    /\ ccOwn = [c \in Callers |-> {}]
    /\ ccStored = {}

\* the key is absent, or holds what an earlier call stored
ConcInit ==
    /\ \/ /\ store = [k \in StoreKeys |-> NoEntry]
          /\ ccStored = {}
       \/ /\ store = BackendSet([k \in StoreKeys |-> NoEntry], 0, ConcKey,
                                EarlierResult, default_timeout)
          /\ ccStored = {EarlierResult}
    /\ now = 0 /\ last = NoOp /\ prev = NoPrev
    /\ latest = [k \in StoreKeys |-> NoLatest]
    /\ ccPc = [c \in Callers |-> "get"]
    /\ ccValue = [c \in Callers |-> None]
    /\ ccRet = [c \in Callers |-> NoReturn]
    /\ ccCalls = [c \in Callers |-> 0]
    /\ ccOwn = [c \in Callers |-> {}]

\* cached_value = self.get(key), and the return on a hit (lines 129-131)
ConcGet(c) ==
    /\ ccPc[c] = "get"
    /\ LET g == get(store, now, ConcKey, FALSE) IN
       IF g.ret # None
       THEN /\ ccRet' = [ccRet EXCEPT ![c] = [ret |-> g.ret, exc |-> FALSE]]
            /\ ccPc' = [ccPc EXCEPT ![c] = "done"]
       ELSE /\ ccPc' = [ccPc EXCEPT ![c] = "call"]
            /\ UNCHANGED ccRet
    /\ UNCHANGED <<store, ccValue, ccCalls, ccOwn, ccStored>>

\* computed_value = callable_func() (line 135)
ConcCall(c) ==
    /\ ccPc[c] = "call"
    /\ ccCalls' = [ccCalls EXCEPT ![c] = 1]
    /\ \E ending \in Endings :
           IF ending = "raise"
           THEN /\ ccPc' = [ccPc EXCEPT ![c] = "retry"]
                /\ UNCHANGED <<ccValue, ccOwn>>
           ELSE LET v == IF ending = "none" THEN None ELSE ResultOf(c, 1) IN
                /\ ccValue' = [ccValue EXCEPT ![c] = v]
                /\ ccOwn' = [ccOwn EXCEPT ![c] = @ \cup {v}]
                /\ ccPc' = [ccPc EXCEPT ![c] = "set"]
    /\ UNCHANGED <<store, ccRet, ccStored>>

\* self.set(key, computed_value, timeout) and return computed_value (lines 138-140)
ConcSet(c) ==
    /\ ccPc[c] = "set"
    /\ store' = set(store, now, ConcKey, ccValue[c], NoTimeout, FALSE).st
    /\ ccStored' = ccStored \cup {ccValue[c]}
    /\ ccRet' = [ccRet EXCEPT ![c] = [ret |-> ccValue[c], exc |-> FALSE]]
    /\ ccPc' = [ccPc EXCEPT ![c] = "done"]
    /\ UNCHANGED <<ccValue, ccCalls, ccOwn>>

\* the except clause (lines 142-149): return callable_func(), or raise what it
\* raises
ConcRetry(c) ==
    /\ ccPc[c] = "retry"
    /\ ccCalls' = [ccCalls EXCEPT ![c] = 2]
    /\ \E ending \in Endings :
           IF ending = "raise"
           THEN /\ ccRet' = [ccRet EXCEPT ![c] = [ret |-> None, exc |-> TRUE]]
                /\ UNCHANGED ccOwn
           ELSE LET v == IF ending = "none" THEN None ELSE ResultOf(c, 2) IN
                /\ ccRet' = [ccRet EXCEPT ![c] = [ret |-> v, exc |-> FALSE]]
                /\ ccOwn' = [ccOwn EXCEPT ![c] = @ \cup {v}]
    /\ ccPc' = [ccPc EXCEPT ![c] = "done"]
    /\ UNCHANGED <<store, ccValue, ccStored>>

Init == CacheInit /\ KeyIdle /\ SumIdle /\ PipeIdle /\ ConcIdle

\* the backend may fail at any call; callers leave the timeout to the default
Next == CacheNext(BOOLEAN, FaultPlans, {NoTimeout}) /\ UNCHANGED <<keyVars, sumVars, pipeVars, concVars>>

Spec == Init /\ [][Next]_vars

\* the backend never fails; callers give any timeout
NextWorking == CacheNext({FALSE}, {"none"}, Timeouts) /\ UNCHANGED <<keyVars, sumVars, pipeVars, concVars>>

SpecWorking == Init /\ [][NextWorking]_vars

InitKey == KeyInit /\ CacheInit /\ SumIdle /\ PipeIdle /\ ConcIdle

NextKey == (GenerateCacheKey \/ Reorder) /\ UNCHANGED <<cacheVars, sumVars, pipeVars, concVars>>

SpecKey == InitKey /\ [][NextKey]_vars

InitSum == SumInit /\ CacheInit /\ KeyIdle /\ PipeIdle /\ ConcIdle

NextSum == (Summarize \/ Restart) /\ UNCHANGED <<cacheVars, keyVars, pipeVars, concVars>>

SpecSum == InitSum /\ [][NextSum]_vars

InitPipe == PipeInit /\ CacheInit /\ KeyIdle /\ SumIdle /\ ConcIdle

NextPipe == (Preprocess \/ Split \/ Score \/ Draft \/ Expand) /\ UNCHANGED <<cacheVars, keyVars, sumVars, concVars>>

SpecPipe == InitPipe /\ [][NextPipe]_vars

InitConc == ConcInit /\ KeyIdle /\ SumIdle /\ PipeIdle

NextConc ==
    (\E c \in Callers : ConcGet(c) \/ ConcCall(c) \/ ConcSet(c) \/ ConcRetry(c))
        /\ UNCHANGED <<now, last, prev, latest, keyVars, sumVars, pipeVars>>

SpecConc == InitConc /\ [][NextConc]_vars

(***************************************************************************)
(* Claims about the cache.                                                 *)
(***************************************************************************)
TwoCallsInSequence ==
    /\ last.op = "get_or_set" /\ ~last.exc
    /\ prev.valid /\ prev.key = last.key

\* C1 (as stated): two get_or_set calls on a key in sequence, nothing in between,
\* for any producer: the producer runs exactly once in total and the second call
\* returns what the first returned.
C1_OnceForAnyProducer ==
    TwoCallsInSequence => prev.calls + last.calls = 1 /\ last.ret = prev.ret

\* C1 (amended): the same, when the backend's get and set succeed in both calls,
\* the key is absent before the first call and the producer's first invocation
\* returns a value other than None.
C1_OnceOverWorkingStore ==
    (TwoCallsInSequence /\ prev.clean /\ ~last.fault)
        => prev.calls + last.calls = 1 /\ last.ret = prev.ret

C1_Witness ==
    /\ TwoCallsInSequence /\ prev.clean /\ ~last.fault
    /\ prev.calls = 1 /\ last.hit /\ last.calls = 0 /\ last.ret = "v1"

\* C2: within one get_or_set the producer is invoked zero times on a hit and exactly
\* once on a miss, whether it returns or raises; on a miss that returns, the result
\* is stored under the key and returned.
C2_ProducerAtMostOncePerCall ==
    last.op = "get_or_set" =>
        /\ last.hit => last.calls = 0
        /\ ~last.hit => last.calls = 1
        /\ (~last.hit /\ ~last.exc) =>
              /\ last.ret = last.pval
              /\ store[last.key].present /\ store[last.key].value = last.ret

\* C3: get_or_set raises only when the producer raises; a backend failure while the
\* producer succeeds still returns the producer's value; a producer failure reaches
\* the caller.
C3_OnlyProducerFailureSurfaces ==
    last.op = "get_or_set" =>
        /\ last.exc => last.first = "raise"
        /\ (last.first \in {"ret", "retNone"}) => ~last.exc /\ last.ret = last.pval
        /\ last.first = "raise" => last.exc

\* C4: get, set, delete and clear_all never propagate a backend failure: on failure
\* get returns None and the others False; without failure the others return True.
C4_BackendFailuresSwallowed ==
    last.op \in {"get", "set", "delete", "clear_all"} =>
        /\ ~last.exc
        /\ last.fault => last.ret = (IF last.op = "get" THEN None ELSE PyFalse)
        /\ (~last.fault /\ last.op # "get") => last.ret = PyTrue

C4_Witness == last.op = "set" /\ last.fault /\ last.ret = PyFalse /\ ~last.exc

\* C5: over a working backend, get(k) returns the value of the most recent set on k
\* that has not since been deleted, cleared or expired, and None otherwise; the
\* set(ttl=60) / get / delete round trip of health_check reads the value back and
\* leaves the key absent.
C5_GetReturnsLatestSet ==
    latest # Unknown =>
        /\ last.op = "get" =>
              last.ret = (IF latest[last.key].live /\ now < latest[last.key].deadline
                          THEN latest[last.key].value ELSE None)
        /\ last.op = "health_check" =>
              last.ret = PyTrue /\ BackendGet(store, now, HealthKey) = None

C5_Witness ==
    /\ latest # Unknown /\ last.op = "get" /\ last.key \in Keys
    /\ last.ret = "v2" /\ now > 0 /\ latest[last.key].live

\* C6: set and get_or_set store the entry with a timeout of 1800 seconds when the
\* caller gives none, and with exactly the caller's timeout for every value given.
C6_TimeoutAsGiven ==
    (/\ last.op \in {"set", "get_or_set"}
     /\ last.op = "get_or_set" => (last.calls = 1 /\ last.first \in {"ret", "retNone"})
     /\ ~last.fault)
        => store[last.key].expires - now =
             (IF last.timeout = NoTimeout THEN default_timeout ELSE last.timeout[1])

(***************************************************************************)
(* Claims about the key builder.                                           *)
(***************************************************************************)
\* C7: generate_cache_key is deterministic and independent of parameter order: every
\* call given the same name/value pairs, in whatever order, returns the same key.
C7_KeyIndependentOfOrder == kCalls >= 1 => kKey = kFirst

\* a second call, made with the parameters in another order than the sorted one
C7_Witness ==
    /\ kCalls = 2 /\ Len(kArgs) = 3 /\ kKey = kFirst
    /\ kArgs # sorted_items(kArgs)
    /\ Len(kKey) < KeyLengthLimit

\* C8: for every prefix and every parameter set the key is at most 250 characters.
C8_KeyAtMost250 == kCalls >= 1 => Len(kKey) <= KeyLengthLimit

\* "{prefix}:{serializedParams}" for the arguments of the calls
KeyString == kPrefix \o <<":">> \o json_dumps(sorted_items(kArgs))

\* C13: generate_cache_key returns "{prefix}:{serializedParams}" unchanged exactly
\* when that string is at most 250 characters long; otherwise it returns
\* "{prefix}:{hash}", the hash being 32 hex characters computed over the whole
\* "{prefix}:{serializedParams}" string.
C13_PlainOrHashed ==
    kCalls >= 1 =>
        IF Len(KeyString) <= KeyLengthLimit
        THEN kKey = KeyString
        ELSE /\ kKey # KeyString
             /\ Len(kKey) = Len(kPrefix) + 1 + 32
             /\ SubSeq(kKey, 1, Len(kPrefix) + 1) = kPrefix \o <<":">>
             /\ \A i \in (Len(kPrefix) + 2)..Len(kKey) :
                    \E d \in 1..Len(HexDigits) : kKey[i] = HexDigits[d]
             /\ SubSeq(kKey, Len(kPrefix) + 2, Len(kKey)) = md5_hexdigest(KeyString)

\* a string one character over the limit was replaced by the hashed form
C13_Witness ==
    /\ kCalls >= 1 /\ Len(KeyString) = KeyLengthLimit + 1
    /\ kKey = kPrefix \o <<":">> \o md5_hexdigest(KeyString)
    /\ kKey # KeyString

\* C20: get_or_set writes to the backing store only where the lookup missed and
\* the producer's first invocation returned: on a hit the store is left as it was
\* (value and expiry of the entry included), in a call where an invocation of the
\* producer raises no entry is written, even when the call returns a value, and
\* no entry of another key is ever touched.
C20_WritesOnlyAfterMissAndReturn ==
    [][last'.op = "get_or_set" =>
          /\ store' # store => (~last'.hit /\ last'.first \in {"ret", "retNone"})
          /\ last'.hit => store' = store
          /\ last'.first = "raise" => store' = store
          /\ \A k \in StoreKeys : k # last'.key => store'[k] = store[k]]_vars

\* the first invocation raised, the second returned a value, the call returned it
\* and the key has no entry
C20_Witness ==
    /\ last.op = "get_or_set" /\ last.first = "raise" /\ last.calls = 2
    /\ ~last.exc /\ last.ret # None
    /\ store[last.key] = NoEntry

(***************************************************************************)
(* Claims about concurrent get_or_set calls.                               *)
(***************************************************************************)
AllDone == \A c \in Callers : ccPc[c] = "done"

\* a caller that returned, returned a value the key has held or a result of its
\* own producer
ReturnsStoredOrOwn ==
    \A c \in Callers :
        (ccPc[c] = "done" /\ ~ccRet[c].exc) =>
            (ccRet[c].ret \in ccStored \/ ccRet[c].ret \in ccOwn[c])

\* the whole results of the invocations made on the path that stores (the first
\* of each call), and of the earlier call
StorableResults ==
    {EarlierResult} \cup {v \in {None} \cup {ResultOf(c, 1) : c \in Callers} :
                              \E c \in Callers : v \in ccOwn[c]}

NonEmptyInput == sKind = "str" /\ sText # << >> /\ strip(sText) # << >>

\* a call has been made and no step of the last call raised
Summarized == sCalls >= 1 /\ sFault = NoFault

NormalizedWords == word_count(_preprocess_text(sText))

MaxLengthInEffect == IF sMax = NoLen \/ sMax[1] = 0 THEN default_max_length ELSE sMax[1]

\* C10: for every non-empty input whose normalized text has 10 or more words,
\* summarize_text returns a non-empty string of at most max_length characters (the
\* max_length in effect, the default 150 included) that ends in '.', '!' or '?' and
\* starts with an uppercase character whenever the first character is alphabetic.
C10_SummaryWellFormed ==
    (Summarized /\ NonEmptyInput /\ NormalizedWords >= 10)
        => /\ sResult # << >>
           /\ Len(sResult) <= MaxLengthInEffect
           /\ sResult[Len(sResult)] \in Terminators
           /\ (IsLowerChar(sResult[1]) \/ IsUpperChar(sResult[1])) => IsUpperChar(sResult[1])

\* C11: summarize_text never raises: it always returns a string; empty, missing or
\* whitespace-only input gives the no-content message, and a failure of a step of
\* the body (normalization, scoring, composition) gives the fallback message.
C11_NeverRaises ==
    sCalls >= 1 =>
        /\ ~sExc
        /\ sResult # << >>
        /\ ~NonEmptyInput => sResult = NoContentMessage
        /\ sFault # NoFault => sResult = FallbackMessage

\* a text whose scoring step raised came back as the fallback message
C11_Witness ==
    /\ sCalls >= 1 /\ sText = ScenarioText /\ sFault = "scoring"
    /\ ~sExc /\ sResult = FallbackMessage

\* C19: the summarizing pipeline is a pure function of its inputs: any two calls
\* of summarize_text on the same text, max_length and min_length, in the same
\* process run or in different ones, return the same summary. (The vocabularies
\* and the length settings are never assigned after construction: they are
\* definitions of this module, not variables.) Stated of calls no step of which
\* raised.
C19_SameSummaryEveryRun ==
    (sCalls >= 2 /\ ~sFaulted) => sResult = sFirst

(***************************************************************************)
(* Claims about the summarizing steps.                                     *)
(***************************************************************************)
\* C12: for every raw input, the text _preprocess_text returns is at most 2000
\* characters long.
C12_NormalizedAtMost2000 == pStage \notin {"idle", "raw"} => Len(pNorm) <= max_chars

\* sentence j is ranked before sentence i: a greater score, or the same score and
\* an earlier place in the text
RankedBefore(j, i) ==
    pScores[j] > pScores[i] \/ (pScores[j] = pScores[i] /\ j < i)

\* the number of sentences to select out of n
SelectCount(n) == Min2(3, Max2(1, n \div 3))

\* the sentences with fewer than SelectCount sentences ranked before them
Selected ==
    {i \in 1..Len(pSentences) :
        Cardinality({j \in 1..Len(pSentences) : RankedBefore(j, i)})
            < SelectCount(Len(pSentences))}

\* the sentences of a set of indices, in increasing index, joined by single spaces
InOrder(I) ==
    LET idx == SelectSeq([i \in 1..Len(pSentences) |-> i], LAMBDA i : i \in I)
    IN  Join([k \in 1..Len(idx) |-> pSentences[idx[k]]], <<" ">>)

\* C14: for a text with N >= 1 qualifying sentences, _generate_rule_based_summary
\* selects exactly min(3, max(1, N \div 3)) sentences, each scoring at least as high
\* as every unselected one with equal scores going to the earlier sentence, and the
\* draft is the selected sentences in increasing index joined by single spaces (cut
\* to max_length - 3 characters and "..." when longer than max_length).
C14_TopSentencesInOrder ==
    (pStage = "drafted" /\ Len(pSentences) >= 1) =>
        /\ Cardinality(Selected) = SelectCount(Len(pSentences))
        /\ \A i \in Selected : \A j \in (1..Len(pSentences)) \ Selected :
               RankedBefore(i, j)
        /\ IF Len(InOrder(Selected)) <= pMax
           THEN pDraft = InOrder(Selected)
           ELSE pDraft = SliceTo(InOrder(Selected), pMax - 3) \o <<".", ".", ".">>

\* six sentences, the first five with equal scores and the sixth above them: the
\* draft is the first and the sixth, in that order
C14_Witness ==
    /\ pStage = "drafted" /\ pText = TieText /\ Len(pSentences) = 6
    /\ pScores[1] = pScores[2] /\ pScores[6] > pScores[1]
    /\ Selected = {1, 6}
    /\ pDraft = pSentences[1] \o <<" ">> \o pSentences[6]

\* the fragments between runs of '.', '!' and '?', trimmed, without those that are
\* empty or shorter than `least` characters, in their order in the text
FragmentsOfAtLeast(text, least) ==
    LET starts == SelectSeq(Indices(text), LAMBDA i :
                      text[i] \notin Terminators /\ (i = 1 \/ text[i - 1] \in Terminators))
        trimmed == [k \in 1..Len(starts) |->
                      strip(SubSeq(text, starts[k], FirstIn(text, starts[k], Terminators) - 1))]
    IN  SelectSeq(trimmed, LAMBDA f : f # << >> /\ ~(Len(f) < least))

\* C15: _split_into_sentences breaks the text on runs of '.', '!' and '?', trims
\* each fragment, discards exactly the fragments that are empty after trimming or
\* shorter than 10 characters, and returns the others in their original order.
C15_KeepsTenAndLonger ==
    pStage \in {"split", "scored", "drafted"} =>
        pSentences = FragmentsOfAtLeast(pNorm, 10)

\* the parts of a score, in tenths
LengthPart(sentence) ==
    IF word_count(sentence) < 5 THEN 0
    ELSE IF word_count(sentence) <= 20 THEN 10 ELSE 5

KeywordPart(sentence) ==
    5 * Cardinality({w \in tech_keywords : Contains(lower(sentence), w)})

PositionPart(sentence, full_text) ==
    IF \E i \in 1..(200 - Len(sentence) + 1) :
           /\ i + Len(sentence) - 1 <= Len(full_text)
           /\ SubSeq(full_text, i, i + Len(sentence) - 1) = sentence
    THEN 5 ELSE 0

QueryPart(sentence) ==
    IF \E w \in query_words : Contains(lower(sentence), w) THEN 3 ELSE 0

DefectPart(sentence) ==
    IF \E w \in defect_words : Contains(lower(sentence), w) THEN 4 ELSE 0

\* C17: _score_sentence returns exactly 1.0 for 5 to 20 words, 0.5 for more than
\* 20 and 0 for fewer than 5; plus 0.5 for each vocabulary keyword that is a
\* substring of the lower-cased sentence, without a cap; plus 0.5 if the sentence
\* occurs within the first 200 characters of the full text; plus 0.3 if it contains
\* any of the eight query words; plus 0.4 if it contains any of the six defect
\* words; the score is never negative. (Scores in tenths.)
C17_ScoreIsSumOfParts ==
    pStage \in {"scored", "drafted"} =>
        /\ Cardinality(query_words) = 8 /\ Cardinality(defect_words) = 6
        /\ \A i \in 1..Len(pSentences) :
               /\ pScores[i] = LengthPart(pSentences[i]) + KeywordPart(pSentences[i])
                                  + PositionPart(pSentences[i], pNorm)
                                  + QueryPart(pSentences[i]) + DefectPart(pSentences[i])
               /\ pScores[i] >= 0

\* a 26-word sentence with two keywords at the head of the text scores 2.3, a
\* 20-word one with six keywords beyond the first 200 characters scores 4.7
C17_Witness ==
    /\ pStage = "scored" /\ pText = ScoreText /\ Len(pSentences) = 2
    /\ word_count(pSentences[1]) = 26 /\ pScores[1] = 5 + 2 * 5 + 5 + 3
    /\ word_count(pSentences[2]) = 20 /\ pScores[2] = 10 + 6 * 5 + 3 + 4

\* the vocabulary keywords that are a word of the (lower-cased) source t and do not
\* occur in the (lower-cased) summary
Named(t, summary) ==
    With(words_of(lower(t)), LAMBDA ws : With(lower(summary), LAMBDA sl :
        tech_keywords \cap {k \in tech_keywords : k \in ws /\ ~Contains(sl, k)}))

\* the suffix that names the keywords ks
Suffix(ks) ==
    <<" ","R","e","l","a","t","e","d"," ","t","o",":"," ">> \o Join(ks, <<",", " ">>) \o <<".">>

\* the ways of naming between 1 and 3 different keywords of K
Namings(K) ==
    {ks \in UNION {[1..n -> K] : n \in 1..3} :
        \A i, j \in DOMAIN ks : i # j => ks[i] # ks[j]}

====
